---- MODULE Spec2Model ----
(***************************************************************************)
(* ArnoldPyProc (src/main.cpp): a procedural plugin that drives Python     *)
(* scripts from the renderer.  The model covers the process-wide           *)
(* PythonInterpreter singleton, the per-node PythonDso bridge, the four    *)
(* exported entry points and the part of the Python runtime and of the     *)
(* host that they act on (lock, error indicator, sys.modules, registry).   *)
(* Strings are tuples of one-character strings, so that searching and      *)
(* slicing are computed as the code computes them.                         *)
(***************************************************************************)
EXTENDS Integers, Sequences, FiniteSets, TLC

\* ------------------------------------------------------------------ bounds
MaxThreads == 2
MaxBridges == 2
MaxIndex == 0
MaxEnvDepth == 3
MaxPathLen == 5
MaxNameLen == 4

Threads == 1..MaxThreads
Bridges == 1..MaxBridges
Indices == 0..MaxIndex

\* a null pointer (no module name, context or path is the empty tuple)
NULL == <<>>

\* ----------------------------------------------------------------- strings
gsPathSep == ":"

npos == 0

\* std::string::find(c, from), positions counted from 1, npos when absent
RECURSIVE Find(_, _, _)
Find(s, c, from) ==
  IF from > Len(s) THEN npos
  ELSE IF s[from] = c THEN from
  ELSE Find(s, c, from + 1)

\* std::string::find_last_of(chars)
RECURSIVE FindLastOfFrom(_, _, _)
FindLastOfFrom(s, chars, from) ==
  IF from < 1 THEN npos
  ELSE IF s[from] \in chars THEN from
  ELSE FindLastOfFrom(s, chars, from - 1)

FindLastOf(s, chars) == FindLastOfFrom(s, chars, Len(s))

\* std::string::substr(pos) and substr(pos, n), positions counted from 1
SubstrFrom(s, pos) == SubSeq(s, pos, Len(s))

Substr(s, pos, n) == SubSeq(s, pos, pos + n - 1)

\* ------------------------------------------------- file system, environment
\* regular files the stat() calls can see
FileA1 == <<"p", "/", "a", ".", "y">>
FileA2 == <<"q", "/", "a", ".", "y">>
FileB == <<"p", "/", "b", ".", "y">>

RegularFiles == {FileA1, FileA2, FileB}

IsRegularFile(path) == path \in RegularFiles

\* the environment of the process: per variable whether it is set, and
\* its value.  The plugin only reads it.
VARIABLE environ

Unset == [set |-> FALSE, value |-> <<>>]

Value(v) == [set |-> TRUE, value |-> v]

EnvNames == {<<"E">>, <<"F">>}

\* the environment the renderer runs in
StdEnv == [n \in EnvNames |-> IF n = <<"E">> THEN Value(<<"q">>) ELSE Unset]

\* getenv: whether the variable is set, and its value
Getenv(name) == IF name \in EnvNames THEN environ[name] ELSE Unset

\* options.plugin_searchpath and options.procedural_searchpath
PluginSearchPath == <<"x">>
ProceduralSearchPath == <<"[", "E", "]", ":", "[", "U", "]", ":", ":", "p">>

\* the "script" parameter a node may carry
Locators ==
  { FileA1,
    <<"a", ".", "y">>,
    <<"b", ".", "y">>,
    <<"z", ".", "y">> }

\* ------------------------------------------------------------ PathResolver
NotFound == [found |-> FALSE, path |-> <<>>, overflow |-> FALSE]

\* the recursion of findInPath has no base case of its own: MaxEnvDepth
\* nested environment values are more than there are variables, so a call
\* that nests deeper is in a cycle and recurses until the stack is used up
Overflow == [found |-> FALSE, path |-> <<>>, overflow |-> TRUE]

\* PythonDso::findInPath.  TestSegment is the body shared by the loop and
\* by the last segment.
RECURSIVE findInPath(_, _, _)
RECURSIVE ScanSegments(_, _, _, _)
TestSegment(seg, script, depth) ==
  IF Len(seg) = 0 THEN NotFound
  ELSE IF seg[1] = "[" /\ seg[Len(seg)] = "]"
    THEN LET env == Getenv(Substr(seg, 2, Len(seg) - 2))
         IN  IF ~env.set THEN NotFound
             ELSE IF depth = 0 THEN Overflow
             ELSE findInPath(env.value, script, depth - 1)
    ELSE LET path == seg \o <<"/">> \o script
         IN  [found |-> IsRegularFile(path), path |-> path, overflow |-> FALSE]

\* findInPath as it would be with the last segment left out
ScanSegmentsSkipLast(procpath, script, p0, depth) ==
  LET p1 == Find(procpath, gsPathSep, p0)
  IN  IF p1 = npos
        THEN NotFound
        ELSE LET r == TestSegment(Substr(procpath, p0, p1 - p0), script, depth)
             IN  IF r.found \/ r.overflow THEN r
                 ELSE ScanSegments(procpath, script, p1 + 1, depth)

ScanSegments(procpath, script, p0, depth) ==
  LET p1 == Find(procpath, gsPathSep, p0)
  IN  IF p1 = npos
        THEN TestSegment(SubstrFrom(procpath, p0), script, depth)
        ELSE LET r == TestSegment(Substr(procpath, p0, p1 - p0), script, depth)
             IN  IF r.found \/ r.overflow THEN r
                 ELSE ScanSegments(procpath, script, p1 + 1, depth)

findInPath(procpath, script, depth) ==
  LET r == ScanSegments(procpath, script, 1, depth)
  IN  IF r.found \/ r.overflow THEN r ELSE NotFound

\* the separator normalisation of the constructor (non-Windows build)
dirSepFrom == "\\"
dirSepTo == "/"

NormalizeSeps(s) ==
  LET f == [k \in 1..Len(s) |-> IF s[k] = dirSepFrom THEN dirSepTo ELSE s[k]]
  IN  SubSeq(f, 1, Len(s))

\* PythonDso::PythonDso: the value of mScript after construction
ResolveScript(script, procedural_path) ==
  LET direct == IsRegularFile(script)
      r == findInPath(procedural_path, script, MaxEnvDepth)
      found == IF direct THEN script
               ELSE IF r.found THEN r.path
               ELSE <<>>
  IN  IF Len(found) > 0 THEN NormalizeSeps(found) ELSE <<>>

\* PYPROC_INIT: the search path handed to the constructor
EffectiveSearchPath == PluginSearchPath \o <<gsPathSep>> \o ProceduralSearchPath

\* PythonDso::init: the module name derived from mScript
DeriveModuleName(mScript) ==
  LET p0 == FindLastOf(mScript, {"\\", "/"})
      modname == <<"pyproc_">> \o
                 (IF p0 # npos THEN SubstrFrom(mScript, p0 + 1) ELSE mScript)
      dot == Find(modname, ".", 1)
  IN  IF dot # npos THEN Substr(modname, 1, dot - 1) ELSE modname

\* ------------------------------------------------------------ the scripts
\* What each file on disk holds: the protocol functions it defines and what
\* those compute.  p/a.y is a complete script; q/a.y has the same base name
\* and no Init; p/b.y has nothing but Init.
FuncNames == {"Init", "NumNodes", "GetNode", "Cleanup"}

NoFunc == <<>>

Defines(file) ==
  IF file = FileA1 THEN FuncNames
  ELSE IF file = FileA2 THEN {"NumNodes", "GetNode", "Cleanup"}
  ELSE {"Init"}

\* Init(name) -> (status, context): the context remembers who made it
InitStatus(file) == IF file = FileA1 THEN 1 ELSE 2

InitContext(file, name) == <<file, name>>

\* NumNodes(context) -> int
NumNodesValue(file, ctx) == IF file = FileA1 THEN 2 * ctx[2] - 3 ELSE 2

\* GetNode(context, i) -> the name of a node
GetNodeName(file, ctx, i) ==
  IF file = FileA1 THEN (IF i = 0 THEN "A" ELSE "B")
  ELSE (IF i = 0 THEN "Z" ELSE "B")

\* Cleanup(context) -> int
CleanupStatus(file, ctx) == IF file = FileA1 THEN 1 ELSE 0 - 1

\* how a call into a script can end: it returns a value of the right type,
\* returns a value of a wrong type, or raises
CallOutcomes == {"ok", "badType", "raise"}

\* Init can also return a pair whose status is no integer
InitOutcomes == {"ok", "badStatus", "badShape", "raise"}

\* PyImport_ImportModule("imp"), the lookup of "load_source" in it and the
\* call of it, which fails when the file does not compile or run
ImpOutcomes == {"ok", "noImp", "noLoadSource", "loadFailed"}

\* ------------------------------------------------------- the host registry
\* AiNodeLookUpByName: nodes are their addresses, 0 the null node.  A null
\* name (PyString_AsString failed) names no node when the host survives it;
\* getNode records the use of the null pointer as an undefined operation.
NullName == "(null)"

AiNodeLookUpByName(name) ==
  IF name = "A" THEN 1
  ELSE IF name = "B" THEN 2
  ELSE 0

\* --------------------------------------------------------- Python runtime
AllModNames == {DeriveModuleName(f) : f \in RegularFiles}

EmptyNamespace == [fn \in FuncNames |-> NoFunc]

\* load_source as it would be if every script ran in one shared namespace
load_sourceShared(modules, modname, file) ==
  [m \in DOMAIN modules |->
     [fn \in FuncNames |-> IF fn \in Defines(file) THEN file ELSE modules[m][fn]]]

\* imp.load_source(modname, file): the file is executed in the namespace of
\* the module sys.modules holds under that name (a new one when there is
\* none), so names an earlier file defined under the same name stay.
load_source(modules, modname, file) ==
  [modules EXCEPT ![modname] =
     [fn \in FuncNames |-> IF fn \in Defines(file) THEN file ELSE @[fn]]]

\* PyObject_GetAttrString(module, fn): the file whose definition of fn the
\* module holds, or NoFunc
GetAttr(modules, module, fn) == modules[module][fn]

\* `rv == -1 && PyErr_Occurred() != NULL` after PyInt_AsLong
IntResult(v, err) ==
  IF v = 0 - 1 /\ err THEN [rv |-> 0, err |-> FALSE, converted |-> FALSE]
  ELSE [rv |-> v, err |-> err, converted |-> TRUE]

\* no temporary taken, none released
NoTemps == [x \in {"pyimp", "pyload", "func", "pyrv"} |-> [acq |-> 0, rel |-> 0]]

\* ------------------------------------------------------------- PythonDso
\* The bodies of the four methods, between PyGILState_Ensure and
\* PyGILState_Release, as functions of the bridge d, of sys.modules, of the
\* thread's error indicator and of how the call-outs end.  Each yields the
\* return value, the path taken (how), the undefined operations met (ub),
\* the error indicator, the two handles and sys.modules afterwards, and the
\* references taken and dropped.  Where ub is not empty the fields describe
\* the run in which the undefined operation had no effect.
Effects(d, modules, err) ==
  [rv |-> 0, how |-> "none", ub |-> {}, err |-> err,
   mModule |-> d.mModule, mUserData |-> d.mUserData, modules |-> modules,
   modAcq |-> 0, ctxAcq |-> 0, modRel |-> 0, ctxRel |-> 0, tmp |-> NoTemps]

\* The temporaries of init: the imp module, its load_source, the Init
\* function, and what Init returned.  For each, the references init got
\* (acq) and the Py_DECREF it made (rel) on the path it took.
InitTemporaries(how) ==
  LET once == [acq |-> 1, rel |-> 1]
      none == [acq |-> 0, rel |-> 0]
      hasLoad == how \notin {"noImp", "noLoadSource"}
      hasFunc == how \in {"raised", "badShape", "badStatus", "ok", "staleError"}
      hasResult == how \in {"badShape", "badStatus", "ok", "staleError"}
  IN  [pyimp |-> IF how = "noImp" THEN none
                 ELSE IF how = "noLoadSource" THEN [acq |-> 1, rel |-> 2]
                 ELSE once,
       pyload |-> IF hasLoad THEN once ELSE none,
       func |-> IF hasFunc THEN once ELSE none,
       pyrv |-> IF hasResult THEN once ELSE none]

\* InitCall without the test of the shape of what Init returned
InitCallNoShapeCheck(loaded, func, name, err, out) ==
  IF out = "raise"
    THEN [loaded EXCEPT !.how = "raised", !.err = FALSE]
  ELSE IF out = "badStatus"
    THEN [loaded EXCEPT !.how = "badStatus", !.err = FALSE,
                        !.mUserData = InitContext(func, name), !.ctxAcq = 1]
  ELSE
    LET r == IntResult(InitStatus(func), err)
    IN  [loaded EXCEPT !.how = IF out = "badShape" THEN "badShape"
                               ELSE IF r.converted THEN "ok" ELSE "staleError",
                       !.rv = r.rv, !.err = r.err,
                       !.mUserData = InitContext(func, name), !.ctxAcq = 1]

\* init from the call of Init on: loaded is the state with the module in
\* hand, func the file whose Init the module holds
InitCall(loaded, func, name, err, out) ==
  IF out = "raise"
    THEN [loaded EXCEPT !.how = "raised", !.err = FALSE]
  ELSE IF out = "badShape"
    THEN [loaded EXCEPT !.how = "badShape"]
  ELSE IF out = "badStatus"
    THEN [loaded EXCEPT !.how = "badStatus", !.err = FALSE,
                        !.mUserData = InitContext(func, name), !.ctxAcq = 1]
  ELSE
    LET r == IntResult(InitStatus(func), err)
    IN  [loaded EXCEPT !.how = IF r.converted THEN "ok" ELSE "staleError",
                       !.rv = r.rv, !.err = r.err,
                       !.mUserData = InitContext(func, name), !.ctxAcq = 1]

initOutcome(d, modules, err, imp, out) ==
  LET modname == DeriveModuleName(d.mScript)
      base == Effects(d, modules, err)
  IN  IF imp = "noImp"
        THEN [base EXCEPT !.how = "noImp", !.err = FALSE]
      ELSE IF imp = "noLoadSource"
        THEN [base EXCEPT !.how = "noLoadSource", !.err = FALSE]
      ELSE IF imp = "loadFailed"
        THEN [base EXCEPT !.how = "loadFailed", !.err = FALSE, !.mModule = NULL]
      ELSE
        LET mods == load_source(modules, modname, d.mScript)
            func == GetAttr(mods, modname, "Init")
            loaded == [base EXCEPT !.modules = mods, !.mModule = modname,
                                   !.modAcq = 1]
        IN  IF func = NoFunc
              THEN [loaded EXCEPT !.how = "missing", !.err = FALSE]
              ELSE InitCall(loaded, func, d.mProcName, err, out)

\* init as it would be if mModule were assigned before the load is known
\* to have succeeded
initBodyStaleModule(d, modules, err, imp, out) ==
  LET e == initOutcome(d, modules, err, imp, out)
  IN  [e EXCEPT !.tmp = InitTemporaries(e.how),
                !.mModule = IF e.how = "loadFailed"
                              THEN DeriveModuleName(d.mScript) ELSE @]

\* PythonDso::init: what it does to the bridge and the runtime, and to its
\* own temporaries
initBody(d, modules, err, imp, out) ==
  LET e == initOutcome(d, modules, err, imp, out)
  IN  [e EXCEPT !.tmp = InitTemporaries(e.how)]

\* the part numNodes, getNode and cleanup share: the lookup of the function
\* in mModule and the building of the argument tuple from mUserData.  It
\* yields the file whose function is called, or why none is.
Lookup(d, modules, fn) ==
  IF d.mModule = NULL THEN [func |-> NoFunc, how |-> "missing", ub |-> {"nullModule"}]
  ELSE LET func == GetAttr(modules, d.mModule, fn)
       IN  IF func = NoFunc THEN [func |-> NoFunc, how |-> "missing", ub |-> {}]
           ELSE IF d.mUserData = NULL
             THEN [func |-> NoFunc, how |-> "raised", ub |-> {}]
           ELSE [func |-> func, how |-> "call", ub |-> {}]

numNodesBody(d, modules, err, out) ==
  LET base == Effects(d, modules, err)
      l == Lookup(d, modules, "NumNodes")
  IN  IF l.how # "call"
        THEN [base EXCEPT !.how = l.how, !.ub = l.ub, !.err = FALSE]
      ELSE IF out = "raise"
        THEN [base EXCEPT !.how = "raised", !.err = FALSE]
      ELSE IF out = "badType"
        THEN [base EXCEPT !.how = "badType", !.err = FALSE]
      ELSE
        LET r == IntResult(NumNodesValue(l.func, d.mUserData), err)
        IN  [base EXCEPT !.how = IF r.converted THEN "ok" ELSE "staleError",
                         !.rv = r.rv, !.err = r.err]

getNodeBody(d, modules, err, i, out) ==
  LET base == Effects(d, modules, err)
      l == Lookup(d, modules, "GetNode")
  IN  IF l.how # "call"
        THEN [base EXCEPT !.how = l.how, !.ub = l.ub, !.err = FALSE]
      ELSE IF out = "raise"
        THEN [base EXCEPT !.how = "raised", !.err = FALSE]
      ELSE IF out = "badType"
        THEN [base EXCEPT !.how = "badType", !.err = TRUE,
                          !.ub = {"nullName"},
                          !.rv = AiNodeLookUpByName(NullName)]
      ELSE
        LET node == AiNodeLookUpByName(GetNodeName(l.func, d.mUserData, i))
        IN  [base EXCEPT !.how = IF node = 0 THEN "unresolved" ELSE "ok",
                         !.rv = node]

\* ReleaseHandles without the Py_DECREF of mModule
ReleaseHandlesLeak(e) ==
  [e EXCEPT !.ub = @ \cup (IF e.mUserData = NULL THEN {"nullUserData"} ELSE {}),
            !.ctxRel = IF e.mUserData = NULL THEN 0 ELSE 1,
            !.mUserData = NULL,
            !.mModule = NULL]

\* the two Py_DECREF and the two assignments that end cleanup
ReleaseHandles(e) ==
  [e EXCEPT !.ub = @ \cup (IF e.mUserData = NULL THEN {"nullUserData"} ELSE {})
                     \cup (IF e.mModule = NULL THEN {"nullModule"} ELSE {}),
            !.ctxRel = IF e.mUserData = NULL THEN 0 ELSE 1,
            !.modRel = IF e.mModule = NULL THEN 0 ELSE 1,
            !.mUserData = NULL,
            !.mModule = NULL]

cleanupBody(d, modules, err, out) ==
  LET base == Effects(d, modules, err)
      l == Lookup(d, modules, "Cleanup")
      called ==
        IF l.how # "call"
          THEN [base EXCEPT !.how = l.how, !.ub = l.ub, !.err = FALSE]
        ELSE IF out = "raise"
          THEN [base EXCEPT !.how = "raised", !.err = FALSE]
        ELSE IF out = "badType"
          THEN [base EXCEPT !.how = "badType", !.err = FALSE]
        ELSE
          LET r == IntResult(CleanupStatus(l.func, d.mUserData), err)
          IN  [base EXCEPT !.how = IF r.converted THEN "ok" ELSE "staleError",
                           !.rv = r.rv, !.err = r.err]
  IN  ReleaseHandles(called)

\* ----------------------------------------------------------------- state
VARIABLES
  msInstance,         \* PythonInterpreter::msInstance is not null
  mMainState,         \* mMainState is not null
  mRestoreState,      \* mRestoreState is not null
  mRunning,
  pyInitialized,      \* Py_IsInitialized()
  threadsInitialized, \* PyEval_ThreadsInitialized()
  gil,                \* the thread whose state is current and holds the lock
  sysModules,         \* module name -> the file that defines each function
  errIndicator,       \* per thread: PyErr_Occurred() != NULL
  dso,                \* per node: the PythonDso made for it
  user_ptr,           \* per node: the handle PYPROC_INIT stored
  th,                 \* per host thread: the entry point it is in
  crashed,            \* an undefined operation ended the process
  loaded,             \* the plugin library has been loaded
  track,              \* per node: the calls issued, the references counted
  loadedAs,           \* module name -> the files loaded under it so far
  hostToken,          \* who held the lock when the constructor was entered
  instances,          \* PythonInterpreter objects allocated and not deleted
  lastOp,             \* what the last Begin or End did
  pIn,                \* a function of the plugin taken alone: its arguments
  pOut                \* and what it returned

vars == <<msInstance, mMainState, mRestoreState, mRunning, pyInitialized,
          threadsInitialized, gil, sysModules, errIndicator, dso, user_ptr,
          th, crashed, loaded, track, loadedAs, hostToken, instances, lastOp,
          environ, pIn, pOut>>

progVars == <<msInstance, mMainState, mRestoreState, mRunning, pyInitialized,
              threadsInitialized, gil, sysModules, errIndicator, dso, user_ptr,
              th, crashed, loaded, track, loadedAs, hostToken, instances,
              lastOp>>

\* the variables the plugin's own state machine leaves alone
pureVars == <<environ, pIn, pOut>>

NoInput == [fn |-> "none", procpath |-> <<>>, script |-> <<>>, other |-> <<>>]

NoOutput == [done |-> FALSE, found |-> FALSE, path |-> <<>>, overflow |-> FALSE,
             name |-> <<>>, otherName |-> <<>>]

interpVars == <<msInstance, mMainState, mRestoreState, mRunning, pyInitialized,
                threadsInitialized, loaded, hostToken, instances, lastOp>>

\* values of gil besides a worker thread: nobody, or the host's own thread
NoThread == 0
HostThread == 0 - 1

\* a host thread outside the plugin.  In a call: the entry point (op), the
\* node (b), the index (i), what the method returned (mrv), what the entry
\* point returns to the host (rv), the path taken (how), and whether an
\* undefined operation was met (flt).
Idle == [pc |-> "idle", op |-> "none", b |-> 0, i |-> 0, mrv |-> 0, rv |-> 0,
         how |-> "none", flt |-> FALSE, tmp |-> NoTemps]

NoDso == [alloc |-> "none", mScript |-> <<>>, mModule |-> NULL,
          mUserData |-> NULL, mProcName |-> 0]

\* a bridge PYPROC_CLEANUP has deleted: its members are no more
Deleted == [NoDso EXCEPT !.alloc = "deleted"]

\* what is recorded of a node: where the host is in the protocol (phase),
\* the calls of init(), and the references the bridge took and dropped
\* since it was made
NoTrack == [phase |-> "new", initCalls |-> 0, modAcq |-> 0, modRel |-> 0,
            ctxAcq |-> 0, ctxRel |-> 0]

\* the process before the plugin is loaded: no runtime, or a runtime of the
\* host's with its thread support off, or on with the host's thread holding
\* the lock, or on with no thread current
ProgInit ==
  /\ msInstance = FALSE
  /\ mMainState = FALSE
  /\ mRestoreState = FALSE
  /\ mRunning = FALSE
  /\ \E start \in { <<FALSE, FALSE, NoThread>>, <<TRUE, FALSE, HostThread>>,
                    <<TRUE, TRUE, HostThread>>, <<TRUE, TRUE, NoThread>> } :
       /\ pyInitialized = start[1]
       /\ threadsInitialized = start[2]
       /\ gil = start[3]
  /\ sysModules = [m \in AllModNames |-> EmptyNamespace]
  /\ errIndicator = [t \in Threads |-> FALSE]
  /\ dso = [b \in Bridges |-> NoDso]
  /\ user_ptr = [b \in Bridges |-> FALSE]
  /\ th = [t \in Threads |-> Idle]
  /\ crashed = FALSE
  /\ loaded = FALSE
  /\ track = [b \in Bridges |-> NoTrack]
  /\ loadedAs = [m \in AllModNames |-> {}]
  /\ hostToken = NoThread
  /\ instances = 0
  /\ lastOp = "none"

Init ==
  /\ ProgInit
  /\ environ = StdEnv
  /\ pIn = NoInput
  /\ pOut = NoOutput

InCall(t) == th[t].pc \in {"acquire", "body", "release"}

Quiet == \A t \in Threads : ~InCall(t)

\* ------------------------------------------------------ PythonInterpreter
\* PythonInterpreter::Begin as it would be without the test of msInstance
BeginAlwaysConstructs(inst) == "construct"

\* PythonInterpreter::Begin: a PythonInterpreter is made only when none is
BeginDecision(inst) == IF inst THEN "keep" ELSE "construct"

\* PythonInterpreter::End: the instance is deleted when there is one
EndDecision(inst) == IF inst THEN "delete" ELSE "noop"

\* PythonInterpreter::Begin with the constructor it runs
Begin ==
  /\ ~crashed
  /\ Quiet
  /\ gil \in {NoThread, HostThread}
  /\ LET dec == BeginDecision(msInstance)
     IN  /\ lastOp' = dec
         /\ IF dec = "keep"
              THEN UNCHANGED <<mMainState, mRestoreState, mRunning,
                               pyInitialized, threadsInitialized, gil,
                               msInstance, hostToken, instances>>
              ELSE /\ instances' = instances + 1
                   /\ hostToken' = gil
                   /\ IF pyInitialized
                        THEN /\ IF ~threadsInitialized
                                  THEN /\ threadsInitialized' = TRUE
                                       /\ mRestoreState' = FALSE
                                  ELSE /\ mRestoreState' = (gil # NoThread)
                                       /\ UNCHANGED threadsInitialized
                             /\ gil' = NoThread
                             /\ mMainState' = FALSE
                             /\ UNCHANGED pyInitialized
                        ELSE /\ pyInitialized' = TRUE
                             /\ threadsInitialized' = TRUE
                             /\ mMainState' = TRUE
                             /\ mRestoreState' = FALSE
                             /\ gil' = NoThread
                   /\ mRunning' = TRUE
                   /\ msInstance' = TRUE
  /\ loaded' = TRUE
  /\ UNCHANGED <<sysModules, errIndicator, dso, user_ptr, th, crashed, track,
                 loadedAs>>
  /\ UNCHANGED pureVars

\* End is called when the host is done with every bridge it holds a handle of
AllCleaned == \A b \in Bridges : user_ptr[b] => dso[b].alloc = "deleted"

\* PythonInterpreter::End with the destructor it runs
End ==
  /\ ~crashed
  /\ loaded
  /\ Quiet
  /\ AllCleaned
  /\ LET dec == EndDecision(msInstance)
     IN  /\ lastOp' = dec
         /\ IF dec = "delete"
              THEN /\ instances' = instances - 1
                   /\ IF mRunning
                        THEN /\ IF mMainState
                                  THEN /\ gil = NoThread
                                       /\ pyInitialized' = FALSE
                                       /\ sysModules' = [m \in AllModNames |-> EmptyNamespace]
                                       /\ loadedAs' = [m \in AllModNames |-> {}]
                                       /\ mMainState' = FALSE
                                       /\ UNCHANGED <<gil, mRestoreState>>
                                  ELSE IF mRestoreState
                                    THEN /\ gil = NoThread
                                         /\ gil' = HostThread
                                         /\ mRestoreState' = FALSE
                                         /\ UNCHANGED <<pyInitialized, sysModules,
                                                        loadedAs, mMainState>>
                                    ELSE UNCHANGED <<gil, pyInitialized, sysModules,
                                                     loadedAs, mMainState,
                                                     mRestoreState>>
                             /\ mRunning' = FALSE
                        ELSE UNCHANGED <<gil, pyInitialized, sysModules, loadedAs,
                                         mMainState, mRestoreState, mRunning>>
                   /\ msInstance' = FALSE
              ELSE UNCHANGED <<gil, pyInitialized, sysModules, loadedAs,
                               mMainState, mRestoreState, mRunning, msInstance,
                               instances>>
  /\ UNCHANGED <<threadsInitialized, errIndicator, dso, user_ptr, th, crashed,
                 loaded, track, hostToken>>
  /\ UNCHANGED pureVars

\* -------------------------------------------------------- ProtocolAdapter
\* The host makes the calls on one node one after the other; it makes calls
\* on different nodes from any of its threads at the same time.  It calls
\* while the plugin is loaded, and past PythonInterpreter::End only in the
\* race with a teardown that has finalized the runtime.
Free(t, b) ==
  /\ ~crashed
  /\ loaded
  /\ msInstance \/ ~pyInitialized
  /\ th[t].pc = "idle"
  /\ \A u \in Threads : InCall(u) => th[u].b # b

\* PYPROC_INIT with the bridge made before the runtime is checked
PyprocInitConstructFirst(alive, optsOK, script) ==
  LET mScript == ResolveScript(script, EffectiveSearchPath)
      valid == Len(mScript) > 0
  IN  IF ~alive
        THEN [how |-> "notAlive", construct |-> TRUE, mScript |-> mScript,
              store |-> FALSE, call |-> FALSE]
      ELSE IF ~optsOK
        THEN [how |-> "noOptions", construct |-> FALSE, mScript |-> <<>>,
              store |-> FALSE, call |-> FALSE]
      ELSE [how |-> IF valid THEN "valid" ELSE "invalid", construct |-> TRUE,
            mScript |-> mScript, store |-> valid, call |-> valid]

\* PYPROC_INIT with the handle stored and init() called whatever valid() says
PyprocInitNoValidCheck(alive, optsOK, script) ==
  IF ~alive
    THEN [how |-> "notAlive", construct |-> FALSE, mScript |-> <<>>,
          store |-> FALSE, call |-> FALSE]
  ELSE IF ~optsOK
    THEN [how |-> "noOptions", construct |-> FALSE, mScript |-> <<>>,
          store |-> FALSE, call |-> FALSE]
  ELSE
    LET mScript == ResolveScript(script, EffectiveSearchPath)
    IN  [how |-> "valid", construct |-> TRUE, mScript |-> mScript,
         store |-> TRUE, call |-> TRUE]

\* PYPROC_INIT up to the call of dso->init(): what it decides
PyprocInitDecision(alive, optsOK, script) ==
  IF ~alive
    THEN [how |-> "notAlive", construct |-> FALSE, mScript |-> <<>>,
          store |-> FALSE, call |-> FALSE]
  ELSE IF ~optsOK
    THEN [how |-> "noOptions", construct |-> FALSE, mScript |-> <<>>,
          store |-> FALSE, call |-> FALSE]
  ELSE
    LET mScript == ResolveScript(script, EffectiveSearchPath)
        valid == Len(mScript) > 0
    IN  [how |-> IF valid THEN "valid" ELSE "invalid", construct |-> TRUE,
         mScript |-> mScript, store |-> valid, call |-> valid]

\* PYPROC_NUM_NODES, PYPROC_GET_NODE and PYPROC_CLEANUP up to the call of
\* the method: the runtime is checked, then the handle is used
EntryDecision(alive, alloc) ==
  IF ~alive THEN "notAlive"
  ELSE IF alloc = "deleted" THEN "useAfterFree"
  ELSE "proceed"

\* what an entry point returns to the host once the method has returned rv
EntryReturn(op, rv) == rv

PyprocInit(t, b, script, optsOK) ==
  /\ Free(t, b)
  /\ track[b].phase = "new"
  /\ LET dec == PyprocInitDecision(pyInitialized, optsOK, script)
     IN  /\ th' = [th EXCEPT ![t] =
                     [pc |-> IF dec.call THEN "acquire" ELSE "done",
                      op |-> "init", b |-> IF dec.call THEN b ELSE 0,
                      i |-> 0, mrv |-> 0,
                      rv |-> 0, how |-> dec.how, flt |-> FALSE,
                      tmp |-> NoTemps]]
         /\ dso' = IF dec.construct
                     THEN [dso EXCEPT ![b] = [alloc |-> "alive",
                                              mScript |-> dec.mScript,
                                              mModule |-> NULL,
                                              mUserData |-> NULL,
                                              mProcName |-> b]]
                     ELSE dso
         /\ user_ptr' = [user_ptr EXCEPT ![b] = @ \/ dec.store]
         /\ track' = [track EXCEPT
                        ![b].phase = IF dec.construct
                                       THEN (IF dec.store THEN "running" ELSE "invalid")
                                       ELSE @,
                        ![b].initCalls = IF dec.call THEN @ + 1 ELSE @]
  /\ UNCHANGED <<interpVars, gil, sysModules, errIndicator, crashed, loadedAs>>
  /\ UNCHANGED pureVars

\* the three other entry points, on the handle of node b
PyprocEntry(t, op, b, i) ==
  /\ Free(t, b)
  /\ user_ptr[b]
  /\ LET dec == EntryDecision(pyInitialized, dso[b].alloc)
         call == [pc |-> "acquire", op |-> op, b |-> b, i |-> i, mrv |-> 0,
                  rv |-> 0, how |-> "none", flt |-> FALSE, tmp |-> NoTemps]
         issued == [track EXCEPT ![b].phase =
                      IF @ = "running" /\ op = "cleanup" THEN "cleaned"
                      ELSE IF @ = "running" THEN @
                      ELSE "misused"]
     IN  \/ /\ dec = "notAlive"
            /\ th' = [th EXCEPT ![t] = [call EXCEPT !.pc = "done", !.b = 0,
                                                    !.i = 0,
                                                    !.how = "notAlive"]]
            /\ UNCHANGED <<crashed, track>>
         \/ /\ dec = "proceed"
            /\ th' = [th EXCEPT ![t] = call]
            /\ track' = issued
            /\ UNCHANGED crashed
         \/ /\ dec = "useAfterFree"
            /\ \/ /\ th' = [th EXCEPT ![t] = [call EXCEPT !.flt = TRUE]]
                  /\ track' = issued
                  /\ UNCHANGED crashed
               \/ /\ th' = [th EXCEPT ![t] = [call EXCEPT !.flt = TRUE]]
                  /\ crashed' = TRUE
                  /\ track' = issued
  /\ UNCHANGED <<interpVars, gil, sysModules, errIndicator, dso, user_ptr,
                 loadedAs>>
  /\ UNCHANGED pureVars

PyprocNumNodes(t, b) == PyprocEntry(t, "numNodes", b, 0)

PyprocGetNode(t, b, i) == PyprocEntry(t, "getNode", b, i)

PyprocCleanup(t, b) == PyprocEntry(t, "cleanup", b, 0)

\* PyGILState_Ensure: the thread waits for the lock and takes it
Acquire(t) ==
  /\ ~crashed
  /\ th[t].pc = "acquire"
  /\ gil = NoThread
  /\ gil' = t
  /\ th' = [th EXCEPT ![t].pc = "body"]
  /\ UNCHANGED <<interpVars, sysModules, errIndicator, dso, user_ptr, crashed,
                 track, loadedAs>>
  /\ UNCHANGED pureVars

\* the body of a method has run with effects e and the entry point has the
\* value it will return: it goes on to release the lock, or, when it met an
\* undefined operation, it may end the process
Apply(t, e) ==
  LET b == th[t].b
  IN  \/ /\ th' = [th EXCEPT ![t].pc = "release", ![t].mrv = e.rv,
                             ![t].rv = EntryReturn(th[t].op, e.rv),
                             ![t].how = e.how, ![t].flt = @ \/ e.ub # {},
                             ![t].tmp = e.tmp]
         /\ dso' = [dso EXCEPT ![b].mModule = e.mModule,
                               ![b].mUserData = e.mUserData]
         /\ sysModules' = e.modules
         /\ loadedAs' = IF e.modAcq = 1
                          THEN [loadedAs EXCEPT ![e.mModule] = @ \cup {dso[b].mScript}]
                          ELSE loadedAs
         /\ errIndicator' = [errIndicator EXCEPT ![t] = e.err]
         /\ track' = [track EXCEPT ![b].modAcq = @ + e.modAcq,
                                   ![b].ctxAcq = @ + e.ctxAcq,
                                   ![b].modRel = @ + e.modRel,
                                   ![b].ctxRel = @ + e.ctxRel]
         /\ UNCHANGED crashed
      \/ /\ e.ub # {}
         /\ crashed' = TRUE
         /\ th' = [th EXCEPT ![t].flt = TRUE]
         /\ UNCHANGED <<dso, sysModules, errIndicator, track, loadedAs>>

Running(t, op) ==
  /\ ~crashed
  /\ th[t].pc = "body"
  /\ th[t].op = op
  /\ gil = t

InitBody(t) ==
  /\ Running(t, "init")
  /\ \E imp \in ImpOutcomes, out \in InitOutcomes :
       Apply(t, initBody(dso[th[t].b], sysModules, errIndicator[t], imp, out))
  /\ UNCHANGED <<interpVars, gil, user_ptr>>
  /\ UNCHANGED pureVars

NumNodesBody(t) ==
  /\ Running(t, "numNodes")
  /\ \E out \in CallOutcomes :
       Apply(t, numNodesBody(dso[th[t].b], sysModules, errIndicator[t], out))
  /\ UNCHANGED <<interpVars, gil, user_ptr>>
  /\ UNCHANGED pureVars

GetNodeBody(t) ==
  /\ Running(t, "getNode")
  /\ \E out \in CallOutcomes :
       Apply(t, getNodeBody(dso[th[t].b], sysModules, errIndicator[t],
                            th[t].i, out))
  /\ UNCHANGED <<interpVars, gil, user_ptr>>
  /\ UNCHANGED pureVars

CleanupBody(t) ==
  /\ Running(t, "cleanup")
  /\ \E out \in CallOutcomes :
       Apply(t, cleanupBody(dso[th[t].b], sysModules, errIndicator[t], out))
  /\ UNCHANGED <<interpVars, gil, user_ptr>>
  /\ UNCHANGED pureVars

\* a release that leaves the lock with the thread
GilKept(t) == t

\* PyGILState_Release: who holds the lock once thread t has released it
GilAfterRelease(t) == NoThread

\* Thread 1 has a Python thread state of its own (it is the thread the
\* runtime was started on); for any other thread PyGILState_Ensure makes a
\* state and the matching PyGILState_Release destroys it, and with it the
\* error indicator.
HasOwnState(t) == t = 1

\* PyGILState_Release and the return to the host; PYPROC_CLEANUP deletes
\* the bridge on its way out
Release(t) ==
  /\ ~crashed
  /\ th[t].pc = "release"
  /\ gil' = GilAfterRelease(t)
  /\ th' = [th EXCEPT ![t] = Idle]
  /\ IF th[t].op = "cleanup"
       THEN /\ dso' = [dso EXCEPT ![th[t].b] = Deleted]
            /\ track' = [track EXCEPT ![th[t].b] =
                            [NoTrack EXCEPT !.phase = track[th[t].b].phase]]
       ELSE UNCHANGED <<dso, track>>
  /\ errIndicator' = [errIndicator EXCEPT ![t] = HasOwnState(t) /\ @]
  /\ UNCHANGED <<interpVars, sysModules, user_ptr, crashed, loadedAs>>
  /\ UNCHANGED pureVars

\* an entry point that did not go into the bridge returns
Return(t) ==
  /\ ~crashed
  /\ th[t].pc = "done"
  /\ th' = [th EXCEPT ![t] = Idle]
  /\ UNCHANGED <<interpVars, gil, sysModules, errIndicator, dso, user_ptr,
                 crashed, track, loadedAs>>
  /\ UNCHANGED pureVars

Next ==
  \/ Begin
  \/ End
  \/ \E t \in Threads, b \in Bridges, script \in Locators, optsOK \in BOOLEAN :
       PyprocInit(t, b, script, optsOK)
  \/ \E t \in Threads, b \in Bridges : PyprocNumNodes(t, b)
  \/ \E t \in Threads, b \in Bridges, i \in Indices : PyprocGetNode(t, b, i)
  \/ \E t \in Threads, b \in Bridges : PyprocCleanup(t, b)
  \/ \E t \in Threads : Acquire(t)
  \/ \E t \in Threads : InitBody(t)
  \/ \E t \in Threads : NumNodesBody(t)
  \/ \E t \in Threads : GetNodeBody(t)
  \/ \E t \in Threads : CleanupBody(t)
  \/ \E t \in Threads : Release(t)
  \/ \E t \in Threads : Return(t)

Spec == Init /\ [][Next]_vars

\* ================================================================ claims
Queries == {"numNodes", "getNode"}

AtRelease(t) == th[t].pc = "release"

\* the bridge of node b went through init() far enough to hold a context
Initialized(b) == track[b].phase = "running" /\ track[b].ctxAcq = 1

\* C1: every bridge operation takes the global lock before it touches the
\* runtime, holds it for its whole body whatever the script call-outs do,
\* and has released it when it is back in the host; at most one thread is
\* inside a bridge body at a time.
C1_LockHeldForWholeBody ==
  /\ \A t \in Threads : th[t].pc \in {"body", "release"} => gil = t
  /\ \A t \in Threads : th[t].pc \in {"idle", "acquire", "done"} => gil # t
  /\ Cardinality({t \in Threads : th[t].pc \in {"body", "release"}}) <= 1

C1_Witness ==
  \E t, u \in Threads :
    /\ t # u
    /\ AtRelease(t) /\ th[t].op = "init" /\ th[t].how = "raised"
    /\ th[u].pc = "acquire"

\* C2 (as claimed): cleanup() called in protocol order on a bridge whose
\* init() never took a context releases no null handle, whatever made init()
\* fail.
C2_CleanupSafeWithoutInit ==
  \A t \in Threads :
    ( /\ th[t].op = "cleanup"
      /\ track[th[t].b].phase = "cleaned"
      /\ track[th[t].b].ctxAcq = 0 )
    => ~th[t].flt

\* C3: over init -> (numNodes | getNode)* -> cleanup, the module and the
\* context references a bridge took are dropped once each, by cleanup and
\* not before, and when cleanup is done the bridge holds neither.
C3_ReleasedExactlyOnce ==
  \A b \in Bridges :
    track[b].phase \in {"running", "cleaned"} =>
      /\ track[b].modAcq <= 1 /\ track[b].ctxAcq <= 1
      /\ track[b].modRel <= track[b].modAcq
      /\ track[b].ctxRel <= track[b].ctxAcq
      /\ (dso[b].mModule # NULL) = (track[b].modAcq = 1 /\ track[b].modRel = 0)
      /\ (dso[b].mUserData # NULL) = (track[b].ctxAcq = 1 /\ track[b].ctxRel = 0)
      /\ track[b].phase = "running" => track[b].modRel = 0 /\ track[b].ctxRel = 0
      /\ \A t \in Threads :
           (AtRelease(t) /\ th[t].op = "cleanup" /\ th[t].b = b) =>
             /\ track[b].modRel = track[b].modAcq
             /\ track[b].ctxRel = track[b].ctxAcq
             /\ dso[b].mModule = NULL /\ dso[b].mUserData = NULL

C3_Witness ==
  \E t \in Threads :
    /\ AtRelease(t) /\ th[t].op = "cleanup"
    /\ track[th[t].b].phase = "cleaned"
    /\ track[th[t].b].modAcq = 1 /\ track[th[t].b].modRel = 1
    /\ track[th[t].b].ctxAcq = 1 /\ track[th[t].b].ctxRel = 1

\* C4: init() returns 0 and meets no undefined operation when the module
\* fails to load, Init is missing, Init raises or Init returns no pair; it
\* keeps a context only when Init returned a pair, and returns the script's
\* status when that pair is (int, context).
C4_InitFailureReturnsZero ==
  \A t \in Threads :
    (AtRelease(t) /\ th[t].op = "init") =>
      LET d == dso[th[t].b]
      IN  /\ th[t].how \in {"loadFailed", "missing", "raised", "badShape",
                            "badStatus", "ok"} => ~th[t].flt
          /\ th[t].how \in {"noImp", "noLoadSource", "loadFailed", "missing",
                            "raised", "badShape", "badStatus", "ok"}
          /\ th[t].how # "ok" => th[t].rv = 0
          /\ th[t].how \in {"noImp", "noLoadSource", "loadFailed"} =>
               d.mModule = NULL
          /\ th[t].how \notin {"ok", "badStatus"} => d.mUserData = NULL
          /\ th[t].how \in {"ok", "badStatus"} =>
               /\ d.mUserData # NULL
               /\ d.mUserData[2] = th[t].b
          /\ th[t].how = "ok" => th[t].rv = InitStatus(d.mUserData[1])

C4_Witness ==
  \E t \in Threads :
    /\ AtRelease(t) /\ th[t].op = "init" /\ th[t].how = "missing"
    /\ dso[th[t].b].mModule # NULL

\* C5 (as claimed): when a bridge operation is about to give the lock back,
\* the runtime has no error pending for the thread.
C5_ErrorClearedBeforeRelease ==
  \A t \in Threads : AtRelease(t) => ~errIndicator[t]

\* C6 (as claimed): on an initialized bridge a query that hits a protocol
\* error returns 0 / null and leaves the bridge as it was, and a query whose
\* script function returns a value of the right type is answered with it.
C6_QueryErrorsContained ==
  \A t \in Threads :
    (AtRelease(t) /\ th[t].op \in Queries /\ Initialized(th[t].b)) =>
      /\ ~th[t].flt
      /\ dso[th[t].b].alloc = "alive"
      /\ dso[th[t].b].mModule # NULL /\ dso[th[t].b].mUserData # NULL
      /\ th[t].how \in {"missing", "raised", "badType", "unresolved"} =>
           th[t].rv = 0
      /\ th[t].how # "staleError"

\* C7 (as claimed): numNodes or getNode on a bridge that holds no module
\* yet, or that cleanup has been called on, meets no undefined operation
\* and returns 0 / null.
C7_OutOfOrderContained ==
  \A t \in Threads :
    ( /\ th[t].op \in Queries
      /\ th[t].pc \in {"acquire", "body", "release"}
      /\ track[th[t].b].modAcq = 0 \/ track[th[t].b].phase = "misused" )
    => /\ ~th[t].flt
       /\ AtRelease(t) => th[t].rv = 0

\* what the script of node b alone, given the context its own Init makes
\* for b, answers to a query
OwnResult(op, b, i) ==
  LET file == dso[b].mScript
      ctx == InitContext(file, b)
  IN  IF "Init" \notin Defines(file) THEN {}
      ELSE IF op = "numNodes"
        THEN IF "NumNodes" \in Defines(file)
               THEN {NumNodesValue(file, ctx)} ELSE {}
        ELSE IF "GetNode" \in Defines(file)
               THEN {AiNodeLookUpByName(GetNodeName(file, ctx, i))} ELSE {}

C9_DeadRuntimeTouchesNothing ==
  [][ \A t \in Threads :
        (th[t].pc = "idle" /\ th'[t].pc # "idle" /\ ~pyInitialized) =>
          /\ th'[t].pc = "done"
          /\ th'[t].how = "notAlive"
          /\ th'[t].rv = 0
          /\ dso' = dso
          /\ user_ptr' = user_ptr
          /\ track' = track
          /\ sysModules' = sysModules
          /\ gil' = gil ]_vars

C9_Witness ==
  \E t, u \in Threads :
    /\ t # u
    /\ th[t].pc = "done" /\ th[t].how = "notAlive" /\ th[t].op = "init"
    /\ th[u].pc = "done" /\ th[u].how = "notAlive" /\ th[u].op = "cleanup"
    /\ ~pyInitialized

\* C10: PYPROC_INIT calls init() only on a valid bridge.  An invalid bridge
\* gets no handle, no init() and the answer 0; a valid one is stored as the
\* node's handle and the entry point returns what its init() returned.
C10_InitOnlyOnValidBridge ==
  /\ \A b \in Bridges :
       /\ track[b].phase = "invalid" =>
            /\ dso[b].mScript = <<>>
            /\ ~user_ptr[b]
            /\ track[b].initCalls = 0
            /\ dso[b].mModule = NULL /\ dso[b].mUserData = NULL
       /\ (track[b].initCalls > 0 /\ dso[b].alloc = "alive") =>
            /\ Len(dso[b].mScript) > 0
            /\ user_ptr[b]
       /\ (user_ptr[b] /\ dso[b].alloc = "alive") => track[b].initCalls = 1
  /\ \A t \in Threads :
       /\ (th[t].pc = "done" /\ th[t].how = "invalid") => th[t].rv = 0
       /\ (AtRelease(t) /\ th[t].op = "init") =>
            /\ th[t].rv = th[t].mrv
            /\ user_ptr[th[t].b]
            /\ Len(dso[th[t].b].mScript) > 0

C10_Witness ==
  \E t, u \in Threads :
    /\ th[t].pc = "done" /\ th[t].how = "invalid"
    /\ AtRelease(u) /\ th[u].op = "init" /\ th[u].how = "ok" /\ th[u].rv = 2

\* C11 (as claimed): a bridge whose script did not resolve is destroyed
\* before PYPROC_INIT returns, a valid bridge is destroyed when
\* PYPROC_CLEANUP returns, and no bridge is left allocated past either
\* point.
C11_EveryBridgeDestroyed ==
  \A b \in Bridges :
    /\ track[b].phase = "invalid" => dso[b].alloc # "alive"
    /\ (track[b].phase = "cleaned" /\ \A t \in Threads : th[t].b # b) =>
         dso[b].alloc = "deleted"

\* ------------------------------------------- findInPath taken on its own
\* PythonDso::findInPath called on any search path, for a script name, in
\* any environment; the process is one where the plugin is not loaded yet.
PathAlphabet == {":", "[", "]", "E", "p"}

SearchPaths == UNION {[1..n -> PathAlphabet] : n \in 0..MaxPathLen}

ScriptNames == {<<"a", ".", "y">>, <<"b", ".", "y">>}

Environments ==
  { e \in [EnvNames -> {Unset, Value(<<"q">>), Value(<<"[", "E", "]">>),
                        Value(<<"[", "F", "]">>)}] :
      e[<<"F">>] # Value(<<"[", "F", "]">>) }

ResolveInit ==
  /\ ProgInit
  /\ ~pyInitialized
  /\ environ \in Environments
  /\ \E procpath \in SearchPaths, script \in ScriptNames :
       pIn = [NoInput EXCEPT !.fn = "findInPath", !.procpath = procpath,
                             !.script = script]
  /\ pOut = NoOutput

ResolveCall ==
  /\ pIn.fn = "findInPath"
  /\ ~pOut.done
  /\ LET r == findInPath(pIn.procpath, pIn.script, MaxEnvDepth)
     IN  pOut' = [NoOutput EXCEPT !.done = TRUE, !.found = r.found,
                                  !.path = r.path, !.overflow = r.overflow]
  /\ UNCHANGED <<progVars, environ, pIn>>

ResolveNext == ResolveCall

ResolveSpec == ResolveInit /\ [][ResolveNext]_vars

\* the segments of a search path, in order
RECURSIVE Split(_, _)
Split(s, sep) ==
  IF \A k \in 1..Len(s) : s[k] # sep THEN <<s>>
  ELSE LET k == CHOOSE j \in 1..Len(s) :
                  s[j] = sep /\ \A h \in 1..(j - 1) : s[h] # sep
       IN  <<SubSeq(s, 1, k - 1)>> \o Split(SubSeq(s, k + 1, Len(s)), sep)

IsEnvSegment(seg) == Len(seg) >= 2 /\ Head(seg) = "[" /\ seg[Len(seg)] = "]"

\* the first match over the segments from the k-th on, as the search is
\* described: empty segments skipped, [NAME] searched through the value of
\* NAME when set, any other segment a directory to look into
RECURSIVE FirstMatch(_, _, _, _)
FirstMatch(segs, k, script, depth) ==
  IF k > Len(segs) THEN NotFound
  ELSE
    LET seg == segs[k]
        here ==
          IF seg = <<>> THEN NotFound
          ELSE IF IsEnvSegment(seg)
            THEN LET env == Getenv(SubSeq(seg, 2, Len(seg) - 1))
                 IN  IF ~env.set THEN NotFound
                     ELSE IF depth = 0 THEN Overflow
                     ELSE FirstMatch(Split(env.value, gsPathSep), 1, script,
                                     depth - 1)
            ELSE LET file == seg \o <<"/">> \o script
                 IN  IF file \in RegularFiles
                       THEN [found |-> TRUE, path |-> file, overflow |-> FALSE]
                       ELSE NotFound
    IN  IF here.found \/ here.overflow THEN here
        ELSE FirstMatch(segs, k + 1, script, depth)

\* C12: whenever findInPath returns, it returns the first file found
\* scanning the segments left to right, empty segments skipped, [NAME]
\* segments followed through the environment when set and skipped when
\* unset, the last segment treated like the others, and it reports no
\* match exactly when no segment yields one.
C12_FirstMatchLeftToRight ==
  (pIn.fn = "findInPath" /\ pOut.done) =>
    LET ref == FirstMatch(Split(pIn.procpath, gsPathSep), 1, pIn.script,
                          MaxEnvDepth)
    IN  /\ pOut.overflow = ref.overflow
        /\ ~pOut.overflow =>
             /\ pOut.found = ref.found
             /\ pOut.found => pOut.path = ref.path /\ IsRegularFile(pOut.path)
             /\ ~pOut.found => pOut.path = <<>>

C12_Witness ==
  /\ pIn.fn = "findInPath" /\ pOut.done
  /\ pIn.procpath = <<":", "[", "E", "]">>
  /\ pIn.script = <<"a", ".", "y">>
  /\ environ[<<"E">>] = Value(<<"q">>)
  /\ pOut.found /\ pOut.path = FileA2

\* C20 (as claimed): findInPath returns for every search path, script name
\* and environment, also when the value of a variable named by a [NAME]
\* segment leads back to that variable.
C20_FindInPathReturns ==
  (pIn.fn = "findInPath" /\ pOut.done) => ~pOut.overflow

\* C13: Begin and End can be called any number of times: there is never
\* more than one PythonInterpreter; a Begin while one exists makes no
\* second one and leaves the runtime as it is; an End while none exists
\* changes nothing; the runtime is initialized only by a Begin that makes
\* the instance and finalized only by the End that deletes that instance.
C13_BeginEndIdempotent ==
  /\ [](/\ instances <= 1
        /\ (instances = 1) = msInstance
        /\ mRunning = msInstance
        /\ mMainState => (msInstance /\ pyInitialized)
        /\ mRestoreState => (msInstance /\ ~mMainState))
  /\ [][ /\ (msInstance /\ msInstance') =>
              UNCHANGED <<mMainState, mRestoreState, mRunning, pyInitialized,
                          threadsInitialized, instances, hostToken>>
         /\ (~msInstance /\ ~msInstance') =>
              UNCHANGED <<mMainState, mRestoreState, mRunning, pyInitialized,
                          threadsInitialized, instances, gil, sysModules>>
         /\ (~pyInitialized /\ pyInitialized') =>
              (~msInstance /\ msInstance' /\ mMainState')
         /\ (pyInitialized /\ ~pyInitialized') =>
              (msInstance /\ mMainState /\ ~msInstance' /\ ~mMainState') ]_vars

C13_Witness ==
  /\ lastOp = "keep"
  /\ msInstance /\ mMainState /\ instances = 1
  /\ \E b \in Bridges : track[b].phase = "running" /\ track[b].ctxAcq = 1

\* C14 (as claimed): the End that deletes an instance which attached to a
\* runtime of the host leaves the runtime initialized and gives the lock
\* back to whoever held it when Begin attached; the End that deletes an
\* instance which made the runtime finalizes it.
C14_ShutdownFollowsOwnership ==
  [][ (msInstance /\ ~msInstance') =>
        IF mMainState
          THEN ~pyInitialized'
          ELSE pyInitialized' /\ gil' = hostToken ]_vars

\* The scheduling of the host threads: a thread waiting for the lock gets
\* it if it is free again and again; a thread that holds it goes on to the
\* end of the body it is in and releases it; an entry point that returns
\* early returns.  A body is enabled exactly while its thread is in it and
\* the process is alive, so the weak fairness of the four bodies is written
\* as that condition failing infinitely often.
FairSpec ==
  /\ Spec
  /\ \A t \in Threads :
       /\ SF_vars(Acquire(t))
       /\ WF_vars(Release(t))
       /\ WF_vars(Return(t))
       /\ []<>(th[t].pc # "body" \/ crashed)

\* the host has kept to init -> (numNodes | getNode)* -> cleanup on every node
InOrder == \A b \in Bridges : track[b].phase # "misused"

\* C17 (as claimed): Begin returns with the lock free in each of its three
\* cases, and every bridge operation a host thread has entered in protocol
\* order then gets the lock and returns.
C17_OperationsComplete ==
  /\ [](msInstance => gil # HostThread)
  /\ \A t \in Threads :
       (th[t].pc = "acquire" /\ InOrder) ~> (th[t].pc = "idle" \/ ~InOrder)

\* what the functions of a script file return for node b, index i
ScriptValue(op, file, b, i) ==
  LET ctx == InitContext(file, b)
  IN  IF op = "init" THEN InitStatus(file)
      ELSE IF op = "numNodes" THEN NumNodesValue(file, ctx)
      ELSE IF op = "getNode" THEN AiNodeLookUpByName(GetNodeName(file, ctx, i))
      ELSE CleanupStatus(file, ctx)

\* C15 (as claimed): on a bridge that runs a complete script in a module of
\* its own, every call in which the script's function returns a value of
\* the right type returns that value to the host, and init keeps the
\* context Init returned for the later calls.
C15_ScriptValuesReturned ==
  \A t \in Threads :
    ( /\ AtRelease(t)
      /\ th[t].how \in {"ok", "staleError"}
      /\ track[th[t].b].phase \in {"running", "cleaned"}
      /\ dso[th[t].b].mScript = FileA1
      /\ loadedAs[DeriveModuleName(FileA1)] = {FileA1} )
    => /\ th[t].rv = ScriptValue(th[t].op, FileA1, th[t].b, th[t].i)
       /\ th[t].op = "init" =>
            dso[th[t].b].mUserData = InitContext(FileA1, th[t].b)

LockFreeAfterBegin == msInstance => gil # HostThread

\* ------------------------------------ the module name taken on its own
\* the derivation of PythonDso::init applied to two script paths
NameAlphabet == {"/", ".", "a", "b"}

ScriptPaths == UNION {[1..n -> NameAlphabet] : n \in 1..MaxNameLen}

NameInit ==
  /\ ProgInit
  /\ ~pyInitialized
  /\ environ = StdEnv
  /\ \E script \in ScriptPaths, other \in ScriptPaths :
       pIn = [NoInput EXCEPT !.fn = "modname", !.script = script,
                             !.other = other]
  /\ pOut = NoOutput

NameCall ==
  /\ pIn.fn = "modname"
  /\ ~pOut.done
  /\ pOut' = [NoOutput EXCEPT !.done = TRUE,
                              !.name = DeriveModuleName(pIn.script),
                              !.otherName = DeriveModuleName(pIn.other)]
  /\ UNCHANGED <<progVars, environ, pIn>>

NameNext == NameCall

NameSpec == NameInit /\ [][NameNext]_vars

\* the file name of a path, and a file name without its extension
Basename(path) ==
  LET seps == {k \in 1..Len(path) : path[k] \in {"/", "\\"}}
  IN  IF seps = {} THEN path
      ELSE SubSeq(path, (CHOOSE k \in seps : \A j \in seps : j <= k) + 1,
                  Len(path))

StripExtension(name) ==
  LET dots == {k \in 1..Len(name) : name[k] = "."}
  IN  IF dots = {} THEN name
      ELSE SubSeq(name, 1, (CHOOSE k \in dots : \A j \in dots : j <= k) - 1)

\* C16 (as claimed): the module name is "pyproc_" followed by the file name
\* of the script without its extension, so two scripts derive the same
\* module name exactly when their file names, extension aside, are the same.
C16_ModuleNameFromBasename ==
  (pIn.fn = "modname" /\ pOut.done) =>
    /\ pOut.name = <<"pyproc_">> \o StripExtension(Basename(pIn.script))
    /\ (pOut.name = pOut.otherName) =
         (StripExtension(Basename(pIn.script)) =
          StripExtension(Basename(pIn.other)))

\* C18: from the construction of a bridge until its cleanup has run, mModule
\* is not null exactly when imp.load_source succeeded in init(): it is null
\* on an invalid bridge, before init() has run, and after an init() that
\* could not load the module.
C18_ModuleHandleIffLoaded ==
  \A b \in Bridges :
    ( /\ dso[b].alloc = "alive"
      /\ \A t \in Threads : ~(AtRelease(t) /\ th[t].op = "cleanup" /\ th[t].b = b) )
    => /\ (dso[b].mModule # NULL) = (track[b].modAcq = 1)
       /\ dso[b].mModule # NULL => dso[b].mModule = DeriveModuleName(dso[b].mScript)
       /\ track[b].phase = "invalid" => dso[b].mModule = NULL
       /\ track[b].initCalls = 0 => dso[b].mModule = NULL
       /\ \A t \in Threads :
            (th[t].op = "init" /\ th[t].b = b) =>
              /\ th[t].pc \in {"acquire", "body"} => dso[b].mModule = NULL
              /\ (AtRelease(t) /\ th[t].how \in {"noImp", "noLoadSource", "loadFailed"})
                   => dso[b].mModule = NULL
              /\ (AtRelease(t) /\ th[t].how \in {"missing", "raised", "badShape",
                                                "badStatus", "ok", "staleError"})
                   => dso[b].mModule # NULL

C18_Witness ==
  \E t \in Threads, b2 \in Bridges :
    /\ AtRelease(t) /\ th[t].op = "init" /\ th[t].how = "loadFailed"
    /\ dso[th[t].b].alloc = "alive" /\ dso[th[t].b].mModule = NULL
    /\ b2 # th[t].b
    /\ dso[b2].alloc = "alive" /\ dso[b2].mModule # NULL

\* C19 (as claimed): when init() is about to return, each temporary it got
\* (the imp module, load_source, Init, Init's result) has been released
\* once, on every path.
C19_TemporariesReleasedOnce ==
  \A t \in Threads :
    (AtRelease(t) /\ th[t].op = "init") =>
      \A x \in DOMAIN th[t].tmp : th[t].tmp[x].rel = th[t].tmp[x].acq

====
